---- MODULE Spec2Model ----
(***************************************************************************)
(* Model of the AnyMem retrieval core (ai_parts): the IndexManager with    *)
(* its manifest (memo_vector_map) and its text / image stores, the BM25    *)
(* corpus built at startup, the background index tasks and the rebuild     *)
(* tasks, all running on one asyncio event loop.                           *)
(*                                                                         *)
(* A store is kept at the level of the reference documents inserted into   *)
(* it: a bag (node -> number of copies) of [doc_id, memo_uid, ver].        *)
(* insert() adds a copy, delete_ref_doc(doc_id) removes every copy with    *)
(* that doc_id.  Memo names and doc ids are token sequences, so that the   *)
(* id scheme "memo:<name>:att:<idx>" is built by concatenation.            *)
(***************************************************************************)
EXTENDS Integers, Sequences, FiniteSets, TLC

\* ------------------------------------------------------------------ bounds
MaxVer == 2       \* distinct contents a memo is submitted with
MaxFail == 1      \* store operations that raise, and kills of the process
MaxTasks == 2     \* background index tasks in flight
MaxFetch == 2     \* memos the memo source returns to one rebuild

\* ------------------------------------------------------------- input data
Names == {<<"A">>, <<"B">>}

NoName == <<>>

Versions == 1..MaxVer

TextAtt == [type |-> "text", content |-> TRUE]

ImageAtt == [type |-> "image", content |-> TRUE]

\* the attachments of a memo in its successive contents: none, then a text
\* file and an image, then an image alone
AttListOf(ver) ==
    CASE ver = 1 -> <<>>
      [] ver = 2 -> <<TextAtt, ImageAtt>>
      [] OTHER -> <<ImageAtt>>

Creators == {"users/1"}

\* memo dicts as posted to /internal/index/memo or returned by the memo source
GoodMemos ==
    {[name |-> n, creator |-> c, ver |-> v, attachments |-> AttListOf(v), valid |-> TRUE] :
        n \in Names, c \in Creators, v \in Versions}

\* a dict that fails Memo.model_validate, and a memo that carries no name
BadMemo ==
    [name |-> <<"A">>, creator |-> "users/1", ver |-> 1,
     attachments |-> <<>>, valid |-> FALSE]

NamelessMemo ==
    [name |-> NoName, creator |-> "users/1", ver |-> 1,
     attachments |-> <<>>, valid |-> TRUE]

MemoDicts == GoodMemos \cup {BadMemo, NamelessMemo}

\* the successive contents of the memo the searches are about
SearchedMemos == {m \in GoodMemos : m.name = <<"A">>}

Strategies ==
    {"text", "image", "vector", "hybrid", "rrf", "weighted",
     "bm25", "bm25_vector", "bm25_vector_alpha", "adaptive"}

\* ---------------------------------------------------------- memo_loader.py
_is_image(att) == att.type = "image"

_is_text_like(att) == att.type = "text"

\* _build_data_url: a payload exists when the attachment carries a link or content
_build_data_url(att) == att.content

\* _attachment_text: the decoded body, None when empty
_attachment_text(att) == att.content

Indices(s) == 1..Len(s)

\* the positions i..Len(keep) at which keep is TRUE, in order
RECURSIVE SelectIdx(_, _)
SelectIdx(keep, i) ==
    IF i > Len(keep) THEN <<>>
    ELSE (IF keep[i] THEN <<i>> ELSE <<>>) \o SelectIdx(keep, i + 1)

BaseDocId(memo) == <<"memo">> \o memo.name

AttDocId(memo, idx) == <<"memo">> \o memo.name \o <<"att", idx>>

ImgDocId(memo, idx) == <<"memo">> \o memo.name \o <<"img", idx>>

Doc(id, memo) == [doc_id |-> id, memo_uid |-> memo.name, ver |-> memo.ver]

\* s[:], the list without the cut
TakeAll(s, n) == s

\* s[:n]
Take(s, n) == SubSeq(s, 1, IF n < Len(s) THEN n ELSE Len(s))

\* Settings.max_images
max_images == 3

\* load_memo_to_llama_docs: enumerate() is zero-based, Indices is one-based;
\* the image loop stops once max_images image documents are built; an image
\* without payload is passed over and does not count
load_memo_to_llama_docs(memo) ==
    LET atts == memo.attachments
        imgs == Take(SelectIdx([i \in Indices(atts) |->
                        _is_image(atts[i]) /\ _build_data_url(atts[i])], 1),
                     max_images)
        txts == SelectIdx([i \in Indices(atts) |->
                    _is_text_like(atts[i]) /\ _attachment_text(atts[i])], 1)
    IN  [base_doc |-> Doc(BaseDocId(memo), memo),
         attachment_docs |-> [k \in Indices(txts) |-> Doc(AttDocId(memo, txts[k] - 1), memo)],
         image_docs |-> [k \in Indices(imgs) |-> Doc(ImgDocId(memo, imgs[k] - 1), memo)]]

\* load_memo_with_async_captions: the caption coroutines it gathers
image_tasks(memo) ==
    LET atts == memo.attachments
    IN  SelectIdx([i \in Indices(atts) |-> _is_image(atts[i]) /\ atts[i].content], 1)

\* ------------------------------------------------------------------ stores
EmptyStore == << >>

Insert(store, node) ==
    IF node \in DOMAIN store
    THEN [store EXCEPT ![node] = @ + 1]
    ELSE store @@ (node :> 1)

\* a delete_ref_doc that removes nothing
KeepRefDoc(store, doc_id) == store

DeleteRefDoc(store, doc_id) ==
    [n \in {x \in DOMAIN store : x.doc_id # doc_id} |-> store[n]]

Nodes(store) == DOMAIN store

HasDoc(store, doc_id) == \E n \in DOMAIN store : n.doc_id = doc_id

MemoUids(nodes) == {n.memo_uid : n \in nodes}

\* ------------------------------------------------------------------- state
VARIABLES
    memo_vector_map,  \* IndexManager.memo_vector_map: memo_uid -> [text, image]
    map_file,         \* content of memo_vector_map.json
    text_index,       \* the text store
    image_index,      \* the image store
    bm25_nodes,       \* BM25Index._nodes of the global BM25 index
    loop,             \* the coroutine the event loop is running, or Free
    call,             \* frame of the IndexManager call being executed
    ret,              \* outcome of the last IndexManager call
    tasks,            \* background process_index_memo tasks
    searchq,          \* a search request is waiting for the event loop
    search,           \* what the last search_memos request was served from
    nfail,            \* store operations that have raised, and kills, so far
    rebuild_tasks,    \* _rebuild_tasks: creator -> status dict
    rtasks,           \* background process_rebuild_index tasks
    accepted          \* memo_uid -> the version of the last request answered 202

vars ==
    <<memo_vector_map, map_file, text_index, image_index, bm25_nodes, loop,
      call, ret, tasks, searchq, search, nfail, rebuild_tasks, rtasks, accepted>>

manager_vars == <<memo_vector_map, map_file, text_index, image_index>>

search_vars == <<searchq, search>>

rebuild_vars == <<rebuild_tasks, rtasks>>

Free == <<"free">>

Api == <<"api">>

TaskOwner(i) == <<"task", i>>

RebuildOwner(j) == <<"rebuild", j>>

NoCall == [op |-> "none"]

NoRet == [op |-> "none"]

NoSearch == [op |-> "none"]

Idle == [pc |-> "idle"]

NoDocs == [base_doc |-> [doc_id |-> <<>>, memo_uid |-> NoName, ver |-> 0],
           attachment_docs |-> <<>>, image_docs |-> <<>>]

NoMapping == [text |-> <<>>, image |-> <<>>]

NoPre == [again |-> FALSE]

\* a creator _rebuild_tasks holds no entry for
NoStatus == [status |-> "none", completed |-> 0, failed |-> 0, total |-> 0]

\* a manifest that keeps the entry of a deleted memo
KeepEntry(map, uid) == map

Remove(map, uid) == [k \in DOMAIN map \ {uid} |-> map[k]]

Put(map, uid, entry) == [k \in DOMAIN map \cup {uid} |-> IF k = uid THEN entry ELSE map[k]]

\* the nodes of one memo held by the two stores
MemoNodes(uid) ==
    {n \in Nodes(text_index) \cup Nodes(image_index) : n.memo_uid = uid}

SeqSet(s) == {s[i] : i \in DOMAIN s}

DocsOf(docs) ==
    {docs.base_doc} \cup SeqSet(docs.attachment_docs) \cup SeqSet(docs.image_docs)

\* ------------------------------------------------- index_manager.py: frames
\* the loops of delete_memo / add_or_update_memo run one store operation per step
NextPhase(f) ==
    CASE f.pc = "delete_text" -> [f EXCEPT !.pc = "delete_image", !.todo = f.mapping.image]
      [] f.pc = "delete_image" -> [f EXCEPT !.pc = "unmap"]
      [] f.pc = "insert_text" -> [f EXCEPT !.pc = "insert_image", !.todo = f.docs.image_docs]
      [] f.pc = "insert_image" -> [f EXCEPT !.pc = "commit"]
      [] OTHER -> f

RECURSIVE Settle(_)
Settle(f) ==
    IF f.pc \in {"delete_text", "delete_image", "insert_text", "insert_image"}
       /\ f.todo = <<>>
    THEN Settle(NextPhase(f))
    ELSE f

\* an upsert that goes straight to its inserts and leaves the old entry in place
FrameNoDelete(op, uid, docs, pre) ==
    LET known == uid \in DOMAIN memo_vector_map
        mapping == IF known THEN memo_vector_map[uid] ELSE NoMapping
        deleting == known /\ op = "delete"
    IN  [op |-> op, uid |-> uid, docs |-> docs, mapping |-> mapping,
         pc |-> IF deleting THEN "delete_text" ELSE "insert_text",
         todo |-> IF deleting THEN mapping.text
                  ELSE <<docs.base_doc>> \o docs.attachment_docs,
         text_ids |-> <<>>, image_ids |-> <<>>,
         text_deleted |-> 0, image_deleted |-> 0,
         failed |-> FALSE, old |-> MemoNodes(uid), pre |-> pre]

Frame(op, uid, docs, pre) ==
    LET known == uid \in DOMAIN memo_vector_map
        mapping == IF known THEN memo_vector_map[uid] ELSE NoMapping
    IN  [op |-> op, uid |-> uid, docs |-> docs, mapping |-> mapping,
         pc |-> IF known THEN "delete_text" ELSE "insert_text",
         todo |-> IF known THEN mapping.text
                  ELSE <<docs.base_doc>> \o docs.attachment_docs,
         text_ids |-> <<>>, image_ids |-> <<>>,
         text_deleted |-> 0, image_deleted |-> 0,
         failed |-> FALSE, old |-> MemoNodes(uid), pre |-> pre]

\* what a call leaves in ret when it returns or raises
Outcome(f, status) ==
    [op |-> f.op, uid |-> f.uid, status |-> status, docs |-> f.docs,
     text_deleted |-> f.text_deleted, image_deleted |-> f.image_deleted,
     failed |-> f.failed, pre |-> f.pre]

\* a manifest entry that leaves the image ids out
TextOnlyEntry(f) == [text |-> f.text_ids, image |-> <<>>]

\* the manifest entry add_or_update_memo writes
NewEntry(f) == [text |-> f.text_ids, image |-> f.image_ids]

\* --------------------------------------------------- callers on the loop
OwnerPc(owner) ==
    CASE owner[1] = "task" -> tasks[owner[2]].pc
      [] owner[1] = "rebuild" -> rtasks[owner[2]].pc
      [] OTHER -> "idle"

OwnerMemo(owner) ==
    IF owner[1] = "task"
    THEN tasks[owner[2]].memo
    ELSE rtasks[owner[2]].memos[rtasks[owner[2]].i]

SetPc(owner, pc) ==
    CASE owner[1] = "task" ->
            /\ tasks' = [tasks EXCEPT ![owner[2]].pc = pc]
            /\ UNCHANGED rebuild_vars
      [] owner[1] = "rebuild" ->
            /\ rtasks' = [rtasks EXCEPT ![owner[2]].pc = pc]
            /\ UNCHANGED <<tasks, rebuild_tasks>>
      [] OTHER -> UNCHANGED <<tasks, rebuild_vars>>

\* load_memo_with_async_captions has created n caption coroutines and awaits
\* asyncio.gather over them
Gather(owner, n) ==
    IF owner[1] = "task"
    THEN /\ tasks' = [tasks EXCEPT ![owner[2]].pc = "captions",
                                   ![owner[2]].invoked = n,
                                   ![owner[2]].done = 0]
         /\ UNCHANGED rebuild_vars
    ELSE /\ rtasks' = [rtasks EXCEPT ![owner[2]].pc = "captions",
                                     ![owner[2]].invoked = n,
                                     ![owner[2]].done = 0]
         /\ UNCHANGED <<tasks, rebuild_tasks>>

\* the caption coroutines of the caller: how many were created, how many
\* have returned
Captions(owner) ==
    IF owner[1] = "task"
    THEN [invoked |-> tasks[owner[2]].invoked, done |-> tasks[owner[2]].done]
    ELSE [invoked |-> rtasks[owner[2]].invoked, done |-> rtasks[owner[2]].done]

\* process_index_memo is over; logged tells whether its except branch ran
\* (logger.error).  It returns normally either way: a background index
\* task ends; process_rebuild_index counts the memo as completed and goes on
\* with its loop without leaving the event loop.  errors keeps the number of
\* memos of the rebuild whose indexing was logged as failed.
Finish(owner, logged) ==
    CASE owner[1] = "task" ->
            /\ tasks' = [tasks EXCEPT ![owner[2]] = Idle]
            /\ loop' = Free
            /\ UNCHANGED rebuild_vars
      [] owner[1] = "rebuild" ->
            /\ rebuild_tasks' =
                 [rebuild_tasks EXCEPT ![rtasks[owner[2]].creator].completed = @ + 1]
            /\ rtasks' = [rtasks EXCEPT ![owner[2]].pc = "loop",
                                        ![owner[2]].i = @ + 1,
                                        ![owner[2]].invoked = 0,
                                        ![owner[2]].done = 0,
                                        ![owner[2]].errors = @ + (IF logged THEN 1 ELSE 0)]
            /\ loop' = owner
            /\ UNCHANGED tasks
      [] OTHER ->
            /\ loop' = Free
            /\ UNCHANGED <<tasks, rebuild_vars>>

\* the state before a call that repeats the upsert that has just returned
PreOf(docs) ==
    IF ret.op = "upsert" /\ ret.status = "ok" /\ ret.docs = docs
    THEN [again |-> TRUE, map |-> memo_vector_map,
          text |-> text_index, image |-> image_index]
    ELSE NoPre

\* add_or_update_memo, up to its first store operation
BeginUpsert(owner, docs) ==
    LET memo_uid == docs.base_doc.memo_uid
    IN  IF memo_uid = NoName
        THEN /\ ret' = [op |-> "upsert", uid |-> memo_uid, status |-> "raised",
                        docs |-> docs, text_deleted |-> 0, image_deleted |-> 0,
                        failed |-> FALSE, pre |-> NoPre]
             /\ call' = NoCall
             /\ Finish(owner, TRUE)
        ELSE /\ call' = Settle(Frame("upsert", memo_uid, docs, PreOf(docs)))
             /\ ret' = NoRet
             /\ loop' = owner
             /\ SetPc(owner, "calling")

\* process_index_memo, up to its first suspension
ProcessIndexMemo(owner, memo) ==
    IF ~memo.valid
    THEN /\ Finish(owner, TRUE)
         /\ UNCHANGED <<call, ret>>
    ELSE IF image_tasks(memo) # <<>>
    THEN /\ Gather(owner, Len(image_tasks(memo)))
         /\ loop' = Free
         /\ UNCHANGED <<call, ret>>
    ELSE BeginUpsert(owner, load_memo_to_llama_docs(memo))

\* the call returns (status "ok") or raises (status "raised") to its caller
Return(status) ==
    /\ ret' = Outcome(call, status)
    /\ call' = NoCall
    /\ Finish(loop, status = "raised")

\* -------------------------------------------- index_manager.py: the steps
MayFail(fail) ==
    /\ fail => nfail < MaxFail
    /\ nfail' = IF fail THEN nfail + 1 ELSE nfail

\* a text delete loop without its try/except: a failing delete_ref_doc raises
DeleteTextStepFatal ==
    /\ call.op # "none" /\ call.pc = "delete_text"
    /\ \E fail \in BOOLEAN :
         /\ MayFail(fail)
         /\ IF fail
            THEN /\ Return("raised")
                 /\ UNCHANGED text_index
            ELSE /\ text_index' = DeleteRefDoc(text_index, Head(call.todo))
                 /\ call' = Settle([call EXCEPT !.todo = Tail(@),
                                                !.text_deleted = @ + 1])
                 /\ UNCHANGED <<ret, loop, tasks, rebuild_vars>>
    /\ UNCHANGED <<accepted, memo_vector_map, map_file, image_index, bm25_nodes, search_vars>>

DeleteTextStep ==
    /\ call.op # "none" /\ call.pc = "delete_text"
    /\ \E fail \in BOOLEAN :
         /\ MayFail(fail)
         /\ text_index' = IF fail THEN text_index
                          ELSE DeleteRefDoc(text_index, Head(call.todo))
         /\ call' = Settle([call EXCEPT !.todo = Tail(@),
                                        !.failed = @ \/ fail,
                                        !.text_deleted = IF fail THEN @ ELSE @ + 1])
    /\ UNCHANGED <<accepted, memo_vector_map, map_file, image_index, bm25_nodes, loop, ret,
                   tasks, search_vars, rebuild_vars>>

DeleteImageStep ==
    /\ call.op # "none" /\ call.pc = "delete_image"
    /\ \E fail \in BOOLEAN :
         /\ MayFail(fail)
         /\ image_index' = IF fail THEN image_index
                           ELSE DeleteRefDoc(image_index, Head(call.todo))
         /\ call' = Settle([call EXCEPT !.todo = Tail(@),
                                        !.failed = @ \/ fail,
                                        !.image_deleted = IF fail THEN @ ELSE @ + 1])
    /\ UNCHANGED <<accepted, memo_vector_map, map_file, text_index, bm25_nodes, loop, ret,
                   tasks, search_vars, rebuild_vars>>

\* del self.memo_vector_map[memo_uid]; self._save_memo_vector_map()
Unmap ==
    /\ call.op # "none" /\ call.pc = "unmap"
    /\ memo_vector_map' = Remove(memo_vector_map, call.uid)
    /\ map_file' = memo_vector_map'
    /\ IF call.op = "delete"
       THEN Return("ok")
       ELSE /\ call' = Settle([call EXCEPT
                        !.pc = "insert_text",
                        !.todo = <<call.docs.base_doc>> \o call.docs.attachment_docs])
            /\ UNCHANGED <<ret, loop, tasks, rebuild_vars>>
    /\ UNCHANGED <<accepted, text_index, image_index, bm25_nodes, search_vars, nfail>>

InsertTextStep ==
    /\ call.op # "none" /\ call.pc = "insert_text"
    /\ \E fail \in BOOLEAN :
         /\ MayFail(fail)
         /\ IF fail
            THEN /\ Return("raised")
                 /\ UNCHANGED text_index
            ELSE /\ text_index' = Insert(text_index, Head(call.todo))
                 /\ call' = Settle([call EXCEPT
                        !.todo = Tail(@),
                        !.text_ids = Append(@, Head(call.todo).doc_id)])
                 /\ UNCHANGED <<ret, loop, tasks, rebuild_vars>>
    /\ UNCHANGED <<accepted, memo_vector_map, map_file, image_index, bm25_nodes, search_vars>>

InsertImageStep ==
    /\ call.op # "none" /\ call.pc = "insert_image"
    /\ \E fail \in BOOLEAN :
         /\ MayFail(fail)
         /\ IF fail
            THEN /\ Return("raised")
                 /\ UNCHANGED image_index
            ELSE /\ image_index' = Insert(image_index, Head(call.todo))
                 /\ call' = Settle([call EXCEPT
                        !.todo = Tail(@),
                        !.image_ids = Append(@, Head(call.todo).doc_id)])
                 /\ UNCHANGED <<ret, loop, tasks, rebuild_vars>>
    /\ UNCHANGED <<accepted, memo_vector_map, map_file, text_index, bm25_nodes, search_vars>>

\* self.memo_vector_map[memo_uid] = {...}; self._save_memo_vector_map()
Commit ==
    /\ call.op # "none" /\ call.pc = "commit"
    /\ memo_vector_map' = Put(memo_vector_map, call.uid, NewEntry(call))
    /\ map_file' = memo_vector_map'
    /\ Return("ok")
    /\ UNCHANGED <<accepted, text_index, image_index, bm25_nodes, search_vars, nfail>>

\* ------------------------------------------------ api/indexing.py: memos
\* POST /internal/index/memo: registers the background task and answers 202
\* with IndexMemoResponse(status="accepted"), whatever the memo dict holds
index_memo(memo) ==
    /\ loop = Free
    /\ \E i \in 1..MaxTasks :
         /\ tasks[i] = Idle
         /\ \A k \in 1..(i - 1) : tasks[k] # Idle
         /\ tasks' = [tasks EXCEPT ![i] = [pc |-> "queued", memo |-> memo,
                                           status |-> "accepted",
                                           invoked |-> 0, done |-> 0]]
    /\ accepted' = IF memo.valid /\ memo.name \in Names
                   THEN [accepted EXCEPT ![memo.name] = memo.ver]
                   ELSE accepted
    /\ UNCHANGED <<manager_vars, bm25_nodes, loop, call, ret, search_vars, nfail, rebuild_vars>>

\* the background task starts: process_index_memo up to its first await
StartIndexTask(i) ==
    /\ loop = Free
    /\ tasks[i].pc = "queued"
    /\ ProcessIndexMemo(TaskOwner(i), tasks[i].memo)
    /\ UNCHANGED <<accepted, manager_vars, bm25_nodes, search_vars, nfail>>

\* one of the caption coroutines the caller awaits returns its caption
generate_caption_async(owner) ==
    /\ loop = Free
    /\ OwnerPc(owner) = "captions"
    /\ Captions(owner).done < Captions(owner).invoked
    /\ IF owner[1] = "task"
       THEN /\ tasks' = [tasks EXCEPT ![owner[2]].done = @ + 1]
            /\ UNCHANGED rebuild_vars
       ELSE /\ rtasks' = [rtasks EXCEPT ![owner[2]].done = @ + 1]
            /\ UNCHANGED <<tasks, rebuild_tasks>>
    /\ UNCHANGED <<accepted, manager_vars, bm25_nodes, loop, call, ret, search_vars, nfail>>

\* asyncio.gather(*image_tasks) has completed: the docs are built and
\* add_or_update_memo is called
CaptionsDone(owner) ==
    /\ loop = Free
    /\ OwnerPc(owner) = "captions"
    /\ Captions(owner).done = Captions(owner).invoked
    /\ BeginUpsert(owner, load_memo_to_llama_docs(OwnerMemo(owner)))
    /\ UNCHANGED <<accepted, manager_vars, bm25_nodes, search_vars, nfail>>

\* DELETE /internal/index/memo/{memo_uid}: delete_memo up to its first store
\* operation; a memo_uid the manifest does not hold returns (0, 0) at once
delete_memo_index(memo_uid) ==
    /\ loop = Free
    /\ IF memo_uid \notin DOMAIN memo_vector_map
       THEN /\ ret' = [op |-> "delete", uid |-> memo_uid, status |-> "absent",
                       docs |-> NoDocs, text_deleted |-> 0, image_deleted |-> 0,
                       failed |-> FALSE, pre |-> NoPre]
            /\ UNCHANGED <<call, loop>>
       ELSE /\ call' = Settle(Frame("delete", memo_uid, NoDocs, NoPre))
            /\ ret' = NoRet
            /\ loop' = Api
    /\ search' = NoSearch
    /\ UNCHANGED <<accepted, manager_vars, bm25_nodes, tasks, searchq, nfail,
                   rebuild_vars>>

\* IndexManager.add_or_update_memo called with the docs of one memo
add_or_update_memo(docs) ==
    /\ loop = Free
    /\ BeginUpsert(Api, docs)
    /\ search' = NoSearch
    /\ UNCHANGED <<accepted, manager_vars, bm25_nodes, searchq, nfail>>

\* ----------------------------------------------------- retrieval, search
\* the nodes a strategy's sub-retrievers read
SourceNodes(mode) ==
    CASE mode = "text" -> Nodes(text_index)
      [] mode = "image" -> Nodes(image_index)
      [] mode \in {"vector", "hybrid", "rrf", "weighted"} ->
            Nodes(text_index) \cup Nodes(image_index)
      [] mode = "bm25" -> bm25_nodes
      [] OTHER -> Nodes(text_index) \cup bm25_nodes

\* the memo_uids some query can bring back under a strategy
Retrievable(mode) == MemoUids(SourceNodes(mode)) \ {NoName}

\* the stores hold neither what the memo had before the running upsert, nor
\* nothing of it, nor exactly its new node set
HalfUpdated ==
    /\ call.op = "upsert"
    /\ MemoNodes(call.uid) \notin {call.old, {}, DocsOf(call.docs)}

\* a search handler run outside the event loop (a thread pool) waits for nothing
SearchAnyTime == TRUE

\* search_memos is a coroutine of the same event loop as the index tasks
SearchCanRun == loop = Free

\* a POST /internal/search arrives; its handler waits for the event loop
search_request ==
    /\ ~searchq
    /\ searchq' = TRUE
    /\ UNCHANGED <<accepted, manager_vars, bm25_nodes, loop, call, ret, tasks, search, nfail, rebuild_vars>>

\* the request is served from the stores as they are now
search_memos ==
    /\ searchq
    /\ SearchCanRun
    /\ searchq' = FALSE
    /\ search' = [op |-> "search", half |-> HalfUpdated]
    /\ UNCHANGED <<accepted, manager_vars, bm25_nodes, loop, call, ret, tasks, nfail, rebuild_vars>>

\* ------------------------------------- index_manager.py: the manifest file
\* the content of memo_vector_map.json while write_text has opened it (mode
\* "w" empties the file) and has not finished writing: text that json.loads
\* rejects, kept as a value no manifest takes
Broken == [uid \in {<<"#partial">>} |-> NoMapping]

\* _load_memo_vector_map: a file that cannot be parsed gives the empty manifest
_load_memo_vector_map(file) == IF file = Broken THEN << >> ELSE file

\* _save_memo_vector_map, first half: write_text has opened the file; the
\* second half is the end of Unmap / Commit, which leaves the new content
Truncate ==
    /\ call.op # "none" /\ call.pc \in {"unmap", "commit"}
    /\ map_file # Broken
    /\ map_file' = Broken
    /\ UNCHANGED <<accepted, memo_vector_map, text_index, image_index, bm25_nodes, loop, call,
                   ret, tasks, search_vars, nfail, rebuild_vars>>

\* ---------------------------------------------------- main.py: lifespan
\* build_bm25_from_index_manager: every node of the text collection
build_bm25_from_index_manager == Nodes(text_index)

\* the service stops and starts again: the stores and the manifest file
\* persist, everything in memory is rebuilt
Restart ==
    /\ loop = Free
    /\ memo_vector_map' = _load_memo_vector_map(map_file)
    /\ bm25_nodes' = build_bm25_from_index_manager
    /\ tasks' = [i \in 1..MaxTasks |-> Idle]
    /\ rtasks' = [j \in DOMAIN rtasks |-> Idle]
    /\ rebuild_tasks' = [c \in Creators |-> NoStatus]
    /\ ret' = NoRet
    /\ searchq' = FALSE
    /\ search' = NoSearch
    /\ UNCHANGED <<accepted, map_file, text_index, image_index, loop, call, nfail>>

\* the process is killed, at any moment, and the service is started again:
\* what is on disk stays as it is, the manifest is loaded from its file
Crash ==
    /\ nfail < MaxFail
    /\ nfail' = nfail + 1
    /\ memo_vector_map' = _load_memo_vector_map(map_file)
    /\ bm25_nodes' = build_bm25_from_index_manager
    /\ call' = NoCall
    /\ loop' = Free
    /\ ret' = NoRet
    /\ UNCHANGED <<accepted, map_file, text_index, image_index, tasks, search_vars, rebuild_vars>>

\* ---------------------------------------------- api/indexing.py: rebuild
\* what the memo source can return for a creator: the successive contents of
\* the creator's memo, and a dict that Memo.model_validate rejects
SourceMemos(creator) ==
    {m \in MemoDicts : m.creator = creator /\ m.name = <<"A">>}

SeqsUpTo(S, n) == UNION {[1..k -> S] : k \in 0..n}

\* POST /internal/index/rebuild: 409 while the creator's status is "running",
\* otherwise the background task is registered
rebuild_user_index(creator) ==
    /\ loop = Free
    /\ rebuild_tasks[creator].status # "running"
    /\ \E j \in 1..MaxTasks :
         /\ rtasks[j] = Idle
         /\ \A k \in 1..(j - 1) : rtasks[k] # Idle
         /\ rtasks' = [rtasks EXCEPT ![j] =
                         [pc |-> "queued", creator |-> creator, memos |-> <<>>,
                          invoked |-> 0, done |-> 0,
                          i |-> 0, errors |-> 0]]
    /\ UNCHANGED <<accepted, manager_vars, bm25_nodes, loop, call, ret, tasks, search_vars, nfail, rebuild_tasks>>

\* process_rebuild_index starts: status "running", counters reset, then
\* await fetch_user_memos
StartRebuild(j) ==
    /\ loop = Free
    /\ rtasks[j].pc = "queued"
    /\ rebuild_tasks' = [rebuild_tasks EXCEPT ![rtasks[j].creator] =
                           [status |-> "running", completed |-> 0,
                            failed |-> 0, total |-> 0]]
    /\ rtasks' = [rtasks EXCEPT ![j].pc = "fetching"]
    /\ UNCHANGED <<accepted, manager_vars, bm25_nodes, loop, call, ret, tasks, search_vars, nfail>>

\* fetch_user_memos returns the creator's memos
FetchDone(j) ==
    /\ loop = Free
    /\ rtasks[j].pc = "fetching"
    /\ \E memos \in SeqsUpTo(SourceMemos(rtasks[j].creator), MaxFetch) :
         /\ rebuild_tasks' =
              [rebuild_tasks EXCEPT ![rtasks[j].creator].total = Len(memos)]
         /\ rtasks' = [rtasks EXCEPT ![j].pc = "loop", ![j].memos = memos, ![j].i = 1]
    /\ loop' = RebuildOwner(j)
    /\ UNCHANGED <<accepted, manager_vars, bm25_nodes, call, ret, tasks, search_vars, nfail>>

\* a process_rebuild_index without its outer except: the task ends and the
\* status stays as it was
FetchFailedUncaught(j) ==
    /\ loop = Free
    /\ rtasks[j].pc = "fetching"
    /\ rtasks' = [rtasks EXCEPT ![j] = Idle]
    /\ UNCHANGED <<accepted, manager_vars, bm25_nodes, loop, call, ret, tasks, search_vars, nfail,
                   rebuild_tasks>>

\* fetch_user_memos raises: the outer except marks the rebuild failed
FetchFailed(j) ==
    /\ loop = Free
    /\ rtasks[j].pc = "fetching"
    /\ rebuild_tasks' = [rebuild_tasks EXCEPT ![rtasks[j].creator].status = "failed"]
    /\ rtasks' = [rtasks EXCEPT ![j] = Idle]
    /\ UNCHANGED <<accepted, manager_vars, bm25_nodes, loop, call, ret, tasks, search_vars, nfail>>

\* one turn of "for i, memo_dict in enumerate(memos)", or the end of the loop
RebuildLoop(j) ==
    /\ loop = RebuildOwner(j)
    /\ rtasks[j].pc = "loop"
    /\ IF rtasks[j].i > Len(rtasks[j].memos)
       THEN /\ rebuild_tasks' =
                 [rebuild_tasks EXCEPT ![rtasks[j].creator].status = "completed"]
            /\ rtasks' = [rtasks EXCEPT ![j] = Idle]
            /\ loop' = Free
            /\ UNCHANGED <<call, ret, tasks>>
       ELSE ProcessIndexMemo(RebuildOwner(j), rtasks[j].memos[rtasks[j].i])
    /\ UNCHANGED <<accepted, manager_vars, bm25_nodes, search_vars, nfail>>

\* ----------------------------------------------------- scores (floats)
\* a score is kept as an exact fraction <<numerator, denominator>> in lowest
\* terms with a positive denominator; rounding is not modelled
RECURSIVE GCD(_, _)
GCD(a, b) == IF b = 0 THEN a ELSE GCD(b, a % b)

Abs(n) == IF n < 0 THEN -n ELSE n

Rat(n, d) ==
    LET g == GCD(Abs(n), Abs(d))
        sgn == IF d < 0 THEN -1 ELSE 1
    IN  <<sgn * (n \div g), sgn * (d \div g)>>

Zero == <<0, 1>>

One == <<1, 1>>

Add(a, b) == Rat(a[1] * b[2] + b[1] * a[2], a[2] * b[2])

Sub(a, b) == Rat(a[1] * b[2] - b[1] * a[2], a[2] * b[2])

Mul(a, b) == Rat(a[1] * b[1], a[2] * b[2])

Div(a, b) == Rat(a[1] * b[2], a[2] * b[1])

Less(a, b) == a[1] * b[2] < b[1] * a[2]

\* ------------------------------------------------------- retrieval/base.py
\* a list left in the order it was built in, not sorted
InsertLast(sorted, r) == Append(sorted, r)

\* list.insert keeping the order of sorted(..., reverse=True), which is
\* stable: r goes after every element whose score is not lower
RECURSIVE InsertDesc(_, _)
InsertDesc(sorted, r) ==
    IF sorted = <<>> THEN <<r>>
    ELSE IF Less(Head(sorted).score, r.score) THEN <<r>> \o sorted
    ELSE <<Head(sorted)>> \o InsertDesc(Tail(sorted), r)

RECURSIVE SortDesc(_)
SortDesc(results) ==
    IF results = <<>> THEN <<>>
    ELSE InsertDesc(SortDesc(SubSeq(results, 1, Len(results) - 1)),
                    results[Len(results)])

\* filters None is the empty dict; a key the metadata lacks is skipped
Matches(r, filters) ==
    \A key \in DOMAIN filters :
        ~(key \in DOMAIN r.metadata /\ r.metadata[key] # filters[key])

filter_results(results, filters, min_score) ==
    SelectSeq(results, LAMBDA r : ~Less(r.score, min_score) /\ Matches(r, filters))

\* a dict that keeps the first result of each memo_uid whatever its score
RECURSIVE SeenFirst(_)
SeenFirst(results) ==
    IF results = <<>> THEN <<>>
    ELSE LET before == SeenFirst(SubSeq(results, 1, Len(results) - 1))
             r == results[Len(results)]
         IN  IF \E i \in DOMAIN before : before[i].memo_uid = r.memo_uid
             THEN before ELSE Append(before, r)

\* the dict seen of deduplicate_by_memo as a list in insertion order: a
\* memo_uid keeps the place of its first result, the value is replaced by a
\* result with a strictly higher score
RECURSIVE Seen(_)
Seen(results) ==
    IF results = <<>> THEN <<>>
    ELSE LET before == Seen(SubSeq(results, 1, Len(results) - 1))
             r == results[Len(results)]
             held == {i \in DOMAIN before : before[i].memo_uid = r.memo_uid}
         IN  IF held = {} THEN Append(before, r)
             ELSE [i \in DOMAIN before |->
                     IF i \in held /\ Less(before[i].score, r.score)
                     THEN r ELSE before[i]]

deduplicate_by_memo(results) == SortDesc(Seen(results))

\* ------------------------------------------- retrieval: the strategies
\* index.as_retriever(similarity_top_k=n).retrieve: the n best of the ranking
\* the store gives for the query
as_retriever(ranking, n) == Take(ranking, n)

SubQuery(q, top_k, min_score, filters) ==
    [q EXCEPT !.top_k = top_k, !.min_score = min_score, !.filters = filters]

\* TextVectorRetriever / ImageVectorRetriever / BM25Retriever .retrieve
TextVectorRetriever(ranking, q) ==
    Take(deduplicate_by_memo(
            filter_results(as_retriever(ranking, q.top_k * 2), q.filters, q.min_score)),
         q.top_k)

ImageVectorRetriever(ranking, q) ==
    Take(deduplicate_by_memo(
            filter_results(as_retriever(ranking, q.top_k * 2), q.filters, q.min_score)),
         q.top_k)

BM25Retriever(ranking, q) ==
    Take(deduplicate_by_memo(
            filter_results(as_retriever(ranking, q.top_k * 2), q.filters, q.min_score)),
         q.top_k)

VectorRetriever(text, image, q) ==
    Take(deduplicate_by_memo(
            SortDesc(TextVectorRetriever(text, q) \o ImageVectorRetriever(image, q))),
         q.top_k)

\* a hybrid strategy that forgets min_score: its only filter is the one of
\* the sub-queries, whose min_score is 0
HybridRetrieverNoMinScore(text, image, q) ==
    LET sub_query == SubQuery(q, q.top_k, Zero, << >>)
        all_results == SortDesc(TextVectorRetriever(text, sub_query)
                                \o ImageVectorRetriever(image, sub_query))
    IN  Take(deduplicate_by_memo(filter_results(all_results, q.filters, Zero)),
             q.top_k)

HybridRetriever(text, image, q) ==
    LET sub_query == SubQuery(q, q.top_k, Zero, << >>)
        all_results == SortDesc(TextVectorRetriever(text, sub_query)
                                \o ImageVectorRetriever(image, sub_query))
    IN  Take(deduplicate_by_memo(filter_results(all_results, q.filters, q.min_score)),
             q.top_k)

\* the dicts scores / docs of the fusion functions as one list in insertion
\* order: a memo_uid keeps the place and the doc of its first item, its
\* score is the sum of the scores of its items
RECURSIVE Accumulate(_)
Accumulate(items) ==
    IF items = <<>> THEN <<>>
    ELSE LET before == Accumulate(SubSeq(items, 1, Len(items) - 1))
             r == items[Len(items)]
             held == {i \in DOMAIN before : before[i].memo_uid = r.memo_uid}
         IN  IF held = {} THEN Append(before, r)
             ELSE [i \in DOMAIN before |->
                     IF i \in held
                     THEN [before[i] EXCEPT !.score = Add(@, r.score)]
                     ELSE before[i]]

\* the results whose memo_uid is not empty, the i-th with the score scores[i]
Scored(results, scores) ==
    LET items == [i \in DOMAIN results |-> [results[i] EXCEPT !.score = scores[i]]]
    IN  SelectSeq(items, LAMBDA r : r.memo_uid # NoName)

\* reciprocal ranks counted from k + rank, without the + 1
_rrf_fusion_from_k(results1, weight1, results2, weight2, k) ==
    SortDesc(Accumulate(
        Scored(results1, [i \in DOMAIN results1 |-> Mul(weight1, Rat(1, k + (i - 1)))])
        \o Scored(results2, [i \in DOMAIN results2 |-> Mul(weight2, Rat(1, k + (i - 1)))])))

\* RRFRetriever._rrf_fusion / BM25VectorFusionRetriever._rrf_fusion on two lists
_rrf_fusion(results1, weight1, results2, weight2, k) ==
    SortDesc(Accumulate(
        Scored(results1, [i \in DOMAIN results1 |-> Mul(weight1, Rat(1, k + (i - 1) + 1))])
        \o Scored(results2, [i \in DOMAIN results2 |-> Mul(weight2, Rat(1, k + (i - 1) + 1))])))

MinScore(results) ==
    CHOOSE m \in {results[i].score : i \in DOMAIN results} :
        \A i \in DOMAIN results : ~Less(results[i].score, m)

MaxScore(results) ==
    CHOOSE m \in {results[i].score : i \in DOMAIN results} :
        \A i \in DOMAIN results : ~Less(m, results[i].score)

\* scores divided by the largest one, the smallest not subtracted
_normalize_by_max(results) ==
    IF results = <<>> THEN results
    ELSE [i \in DOMAIN results |->
            [results[i] EXCEPT !.score = Div(@, MaxScore(results))]]

_normalize_scores(results) ==
    IF results = <<>> THEN results
    ELSE LET min_score == MinScore(results)
             max_score == MaxScore(results)
         IN  IF max_score = min_score
             THEN [i \in DOMAIN results |-> [results[i] EXCEPT !.score = One]]
             ELSE [i \in DOMAIN results |->
                     [results[i] EXCEPT
                        !.score = Div(Sub(@, min_score), Sub(max_score, min_score))]]

\* WeightedRetriever._weighted_fusion, and _alpha_fusion with weights alpha
\* and 1 - alpha; each list holds a memo_uid once (its retriever deduplicates)
_weighted_fusion(results1, weight1, results2, weight2) ==
    SortDesc(Accumulate(
        Scored(results1, [i \in DOMAIN results1 |-> Mul(results1[i].score, weight1)])
        \o Scored(results2, [i \in DOMAIN results2 |-> Mul(results2[i].score, weight2)])))

_alpha_fusion(vector_results, bm25_results, alpha) ==
    _weighted_fusion(vector_results, alpha, bm25_results, Sub(One, alpha))

\* "if query.min_score > 0: fused = [r for r in fused if r.score >= min_score]"
AboveMin(fused, min_score) ==
    IF Less(Zero, min_score)
    THEN SelectSeq(fused, LAMBDA r : ~Less(r.score, min_score))
    ELSE fused

\* a query text is the sequence of its characters
Whitespace == {" "}

\* str.split(): the maximal runs of characters that are not whitespace
Words(query) ==
    {i \in DOMAIN query :
        query[i] \notin Whitespace /\ (i = 1 \/ query[i - 1] \in Whitespace)}

\* the grave accent is written by its name
special_chars ==
    {"{", "}", "[", "]", "(", ")", "<", ">", "=", "/", "\\", "|", "@", "#", "$",
     "%", "^", "&", "*", "grave", "~"}

Quotes == {"\"", "'"}

Clamp(lo, x, hi) == IF Less(x, lo) THEN lo ELSE IF Less(hi, x) THEN hi ELSE x

\* AdaptiveRetriever._compute_alpha
_compute_alpha(query, base_alpha) ==
    LET words == Cardinality(Words(query))
        a1 == IF words <= 2 THEN Sub(base_alpha, Rat(2, 10))
              ELSE IF words >= 8 THEN Add(base_alpha, Rat(15, 100))
              ELSE base_alpha
        a2 == IF \E i \in DOMAIN query : query[i] \in special_chars
              THEN Sub(a1, Rat(25, 100)) ELSE a1
        a3 == IF \E i \in DOMAIN query : query[i] \in Quotes
              THEN Sub(a2, Rat(3, 10)) ELSE a2
    IN  Clamp(Rat(1, 10), a3, Rat(9, 10))

\* the constructor defaults the search endpoint passes on
rrf_k == 60

text_weight == Rat(7, 10)

image_weight == Rat(3, 10)

base_alpha == Rat(1, 2)

RRFRetriever(text, image, q) ==
    LET sub_query == SubQuery(q, q.top_k * 3, Zero, q.filters)
        fused == _rrf_fusion(TextVectorRetriever(text, sub_query), One,
                             ImageVectorRetriever(image, sub_query), One, rrf_k)
    IN  Take(AboveMin(fused, q.min_score), q.top_k)

WeightedRetriever(text, image, q) ==
    LET sub_query == SubQuery(q, q.top_k * 3, Zero, q.filters)
        fused == _weighted_fusion(
                    _normalize_scores(TextVectorRetriever(text, sub_query)), text_weight,
                    _normalize_scores(ImageVectorRetriever(image, sub_query)), image_weight)
    IN  Take(AboveMin(fused, q.min_score), q.top_k)

BM25VectorFusionRetriever(text, bm25, q) ==
    LET sub_query == SubQuery(q, q.top_k * 3, Zero, q.filters)
        fused == _rrf_fusion(TextVectorRetriever(text, sub_query), One,
                             BM25Retriever(bm25, sub_query), One, rrf_k)
    IN  Take(AboveMin(fused, q.min_score), q.top_k)

BM25VectorAlphaRetriever(text, bm25, q, alpha) ==
    LET sub_query == SubQuery(q, q.top_k * 3, Zero, q.filters)
        fused == _alpha_fusion(_normalize_scores(TextVectorRetriever(text, sub_query)),
                               _normalize_scores(BM25Retriever(bm25, sub_query)), alpha)
    IN  Take(AboveMin(fused, q.min_score), q.top_k)

AdaptiveRetriever(text, bm25, q) ==
    BM25VectorAlphaRetriever(text, bm25, q, _compute_alpha(q.query, base_alpha))

\* get_retriever(mode).retrieve(query) over the rankings of the three sources
Retrieve(mode, text, image, bm25, q) ==
    CASE mode = "text" -> TextVectorRetriever(text, q)
      [] mode = "image" -> ImageVectorRetriever(image, q)
      [] mode = "vector" -> VectorRetriever(text, image, q)
      [] mode = "hybrid" -> HybridRetriever(text, image, q)
      [] mode = "rrf" -> RRFRetriever(text, image, q)
      [] mode = "weighted" -> WeightedRetriever(text, image, q)
      [] mode = "bm25" -> BM25Retriever(bm25, q)
      [] mode = "bm25_vector" -> BM25VectorFusionRetriever(text, bm25, q)
      [] mode = "bm25_vector_alpha" -> BM25VectorAlphaRetriever(text, bm25, q, base_alpha)
      [] OTHER -> AdaptiveRetriever(text, bm25, q)

\* ----------------------------------------------------------- specifications
Init ==
    /\ memo_vector_map = << >>
    /\ map_file = << >>
    /\ text_index = EmptyStore
    /\ image_index = EmptyStore
    /\ bm25_nodes = {}
    /\ loop = Free
    /\ call = NoCall
    /\ ret = NoRet
    /\ tasks = [i \in 1..MaxTasks |-> Idle]
    /\ searchq = FALSE
    /\ search = NoSearch
    /\ nfail = 0
    /\ rebuild_tasks = [c \in Creators |-> NoStatus]
    /\ rtasks = [j \in 1..MaxTasks |-> Idle]
    /\ accepted = [uid \in Names |-> 0]

ManagerStep ==
    \/ DeleteTextStep
    \/ DeleteImageStep
    \/ Unmap
    \/ InsertTextStep
    \/ InsertImageStep
    \/ Commit

\* the index manager called for any memo
Next ==
    \/ \E memo \in GoodMemos \cup {NamelessMemo} :
            add_or_update_memo(load_memo_to_llama_docs(memo))
    \/ \E uid \in Names : delete_memo_index(uid)
    \/ ManagerStep

Spec == Init /\ [][Next]_vars

\* the same, with the service stopped and started again at any quiet moment
NextRestart ==
    \/ \E memo \in GoodMemos \cup {NamelessMemo} :
            add_or_update_memo(load_memo_to_llama_docs(memo))
    \/ \E uid \in Names : delete_memo_index(uid)
    \/ ManagerStep
    \/ Restart

SpecRestart == Init /\ [][NextRestart]_vars

\* the index manager with the write of its manifest file in two steps, and
\* the process killed at any moment
NextCrash ==
    \/ \E memo \in GoodMemos : add_or_update_memo(load_memo_to_llama_docs(memo))
    \/ \E uid \in Names : delete_memo_index(uid)
    \/ ManagerStep
    \/ Truncate
    \/ Crash

SpecCrash == Init /\ [][NextCrash]_vars

\* searches arriving while one memo is upserted and deleted
NextSearch ==
    \/ \E memo \in SearchedMemos : add_or_update_memo(load_memo_to_llama_docs(memo))
    \/ \E memo \in SearchedMemos : delete_memo_index(memo.name)
    \/ ManagerStep
    \/ search_request
    \/ search_memos

SpecSearch == Init /\ [][NextSearch]_vars

\* index requests arriving while earlier index tasks are still in flight
NextTasks ==
    \/ \E memo \in MemoDicts : index_memo(memo)
    \/ \E i \in 1..MaxTasks : StartIndexTask(i)
    \/ \E i \in 1..MaxTasks : generate_caption_async(TaskOwner(i))
    \/ \E i \in 1..MaxTasks : CaptionsDone(TaskOwner(i))
    \/ \E uid \in Names : delete_memo_index(uid)
    \/ ManagerStep

SpecTasks == Init /\ [][NextTasks]_vars

\* IndexManager.get_memo_info(self, memo_uid): None for a memo the manifest
\* does not hold, else the ids of its entry and their numbers
get_memo_info(memo_uid) ==
    IF memo_uid \notin DOMAIN memo_vector_map
    THEN [indexed |-> FALSE]
    ELSE LET mapping == memo_vector_map[memo_uid]
         IN  [indexed |-> TRUE, memo_uid |-> memo_uid,
              text_vector_ids |-> mapping.text,
              image_vector_ids |-> mapping.image,
              text_count |-> Len(mapping.text),
              image_count |-> Len(mapping.image)]

\* the parameters get_memo_info declares; a call with another keyword
\* raises a TypeError
get_memo_info_params == {"memo_uid"}

\* a caller of the index manager asks for the info of a memo
call_get_memo_info(memo_uid) ==
    /\ loop = Free
    /\ search' = [op |-> "get_memo_info", uid |-> memo_uid, status |-> "returned",
                  info |-> get_memo_info(memo_uid)]
    /\ UNCHANGED <<accepted, manager_vars, bm25_nodes, loop, call, ret, tasks, searchq, nfail,
                   rebuild_vars>>

\* GET /internal/index/memo/{memo_uid}: manager.get_memo_info(memo_uid,
\* include_detail=include_detail), 404 when the info is None
get_memo_index_info(memo_uid, include_detail) ==
    /\ loop = Free
    /\ LET kwargs == {"memo_uid", "include_detail"}
           info == get_memo_info(memo_uid)
       IN  search' = [op |-> "get_memo_index_info", uid |-> memo_uid,
                      status |-> IF ~(kwargs \subseteq get_memo_info_params)
                                 THEN "TypeError"
                                 ELSE IF ~info.indexed THEN "404" ELSE "returned",
                      info |-> info]
    /\ UNCHANGED <<accepted, manager_vars, bm25_nodes, loop, call, ret, tasks, searchq, nfail,
                   rebuild_vars>>

\* the index manager called for any memo, and asked about any memo
NextInfo ==
    \/ \E memo \in GoodMemos : add_or_update_memo(load_memo_to_llama_docs(memo))
    \/ \E uid \in Names : delete_memo_index(uid)
    \/ ManagerStep
    \/ \E uid \in Names : call_get_memo_info(uid)
    \/ \E uid \in Names, include_detail \in BOOLEAN : get_memo_index_info(uid, include_detail)

SpecInfo == Init /\ [][NextInfo]_vars

\* a memo whose name is the doc_id suffix of another memo's attachment: the
\* name "A:att:0" gives the base doc_id "memo:A:att:0"
AttLikeName == <<"A", "att", 0>>

AttLikeMemo ==
    [name |-> AttLikeName, creator |-> "users/1", ver |-> 1,
     attachments |-> <<>>, valid |-> TRUE]

\* the index manager called for memo A and for the memo named like A's
\* attachment
NextNames ==
    \/ \E memo \in {m \in GoodMemos : m.name = <<"A">>} \cup {AttLikeMemo} :
            add_or_update_memo(load_memo_to_llama_docs(memo))
    \/ \E uid \in {<<"A">>, AttLikeName} : delete_memo_index(uid)
    \/ ManagerStep

SpecNames == Init /\ [][NextNames]_vars

\* index requests and their background tasks alone: no delete request
NextOrder ==
    \/ \E memo \in GoodMemos : index_memo(memo)
    \/ \E i \in 1..MaxTasks : StartIndexTask(i)
    \/ \E i \in 1..MaxTasks : generate_caption_async(TaskOwner(i))
    \/ \E i \in 1..MaxTasks : CaptionsDone(TaskOwner(i))
    \/ ManagerStep

SpecOrder == Init /\ [][NextOrder]_vars

\* rebuild requests and the rebuild tasks they start
NextRebuild ==
    \/ \E creator \in Creators : rebuild_user_index(creator)
    \/ \E j \in 1..MaxTasks : StartRebuild(j)
    \/ \E j \in 1..MaxTasks : FetchDone(j)
    \/ \E j \in 1..MaxTasks : FetchFailed(j)
    \/ \E j \in 1..MaxTasks : RebuildLoop(j)
    \/ \E j \in 1..MaxTasks : generate_caption_async(RebuildOwner(j))
    \/ \E j \in 1..MaxTasks : CaptionsDone(RebuildOwner(j))
    \/ ManagerStep

SpecRebuild == Init /\ [][NextRebuild]_vars

\* the event loop runs every ready callback in turn (its ready queue is
\* first in, first out), so a task step that is ready again and again is
\* taken; the memo source and the caption provider return or raise; a call
\* of the index manager runs to its end without an await
RebuildStep(j) ==
    \/ StartRebuild(j)
    \/ FetchDone(j)
    \/ FetchFailed(j)
    \/ RebuildLoop(j)
    \/ generate_caption_async(RebuildOwner(j))
    \/ CaptionsDone(RebuildOwner(j))

\* rebuilds whose memo source returns one memo at most, over stores whose
\* operations all succeed
OneMemoNoFailure ==
    /\ \A j \in 1..MaxTasks : rtasks'[j] # Idle => Len(rtasks'[j].memos) <= 1
    /\ nfail' = 0

NextLive ==
    \/ \E creator \in Creators : rebuild_user_index(creator) /\ OneMemoNoFailure
    \/ \E j \in 1..MaxTasks : StartRebuild(j) /\ OneMemoNoFailure
    \/ \E j \in 1..MaxTasks : FetchDone(j) /\ OneMemoNoFailure
    \/ \E j \in 1..MaxTasks : FetchFailed(j) /\ OneMemoNoFailure
    \/ \E j \in 1..MaxTasks : RebuildLoop(j) /\ OneMemoNoFailure
    \/ \E j \in 1..MaxTasks : generate_caption_async(RebuildOwner(j)) /\ OneMemoNoFailure
    \/ \E j \in 1..MaxTasks : CaptionsDone(RebuildOwner(j)) /\ OneMemoNoFailure
    \/ DeleteTextStep /\ OneMemoNoFailure
    \/ DeleteImageStep /\ OneMemoNoFailure
    \/ Unmap /\ OneMemoNoFailure
    \/ InsertTextStep /\ OneMemoNoFailure
    \/ InsertImageStep /\ OneMemoNoFailure
    \/ Commit /\ OneMemoNoFailure

FairRebuild ==
    /\ Init /\ [][NextLive]_vars
    /\ WF_vars(ManagerStep)
    /\ \A j \in 1..MaxTasks : SF_vars(RebuildStep(j))

\* ------------------------------------------------- retrieval: one search
MaxHits == 2

MaxTopK == 2

NoFilters == [key \in {} |-> ""]

\* the metadata of the nodes of a memo: memo A was posted with a creator, memo
\* B without one (_build_metadata leaves out the keys whose value is None)
MetadataOf(uid) ==
    IF uid = <<"A">> THEN [key \in {"creator"} |-> "users/1"] ELSE NoFilters

RawScores == {Rat(1, 4), Rat(3, 4)}

MinScores == {Zero, Rat(1, 2)}

Hits ==
    {[memo_uid |-> uid, score |-> s, metadata |-> MetadataOf(uid)] :
        uid \in Names, s \in RawScores}

NonIncreasing(results) ==
    \A i \in 1..(Len(results) - 1) : ~Less(results[i].score, results[i + 1].score)

\* what a store answers to a query: some of its nodes, the best first
Rankings == {h \in SeqsUpTo(Hits, MaxHits) : NonIncreasing(h)}

\* filters of search_memos: None, or the creator of the request
Filters == {NoFilters} \cup {[key \in {"creator"} |-> c] : c \in {"users/1", "users/2"}}

QueryBug == <<"b", "u", "g">>

QueryLong ==
    <<"h", "o", "w", " ", "d", "o", " ", "i", " ", "f", "i", "x", " ", "a", " ",
      "b", "u", "g", " ", "i", "n", " ", "m", "y", " ", "a", "p", "p">>

QueryQuoted ==
    <<"\"", "e", "x", "a", "c", "t", " ", "p", "h", "r", "a", "s", "e", "\"">>

QueryTexts == {QueryBug, QueryLong, QueryQuoted}

UsesText(mode) == mode \notin {"image", "bm25"}

UsesImage(mode) == mode \in {"image", "vector", "hybrid", "rrf", "weighted"}

UsesBm25(mode) == mode \in {"bm25", "bm25_vector", "bm25_vector_alpha", "adaptive"}

\* the answers of the stores a strategy reads; the others are not asked
RankingsFor(used) == IF used THEN Rankings ELSE {<<>>}

\* the query text matters to the adaptive strategy only
QueryTextsFor(mode) == IF mode = "adaptive" THEN QueryTexts ELSE {QueryBug}

\* search_memos builds the query of a request; the stores will give these
\* answers to it
get_retriever(mode) ==
    /\ search = NoSearch
    /\ \E text \in RankingsFor(UsesText(mode)), image \in RankingsFor(UsesImage(mode)),
          bm25 \in RankingsFor(UsesBm25(mode)), query \in QueryTextsFor(mode),
          top_k \in 1..MaxTopK, min_score \in MinScores, filters \in Filters :
            search' = [op |-> "query", mode |-> mode, text |-> text, image |-> image,
                       bm25 |-> bm25,
                       q |-> [query |-> query, top_k |-> top_k,
                              min_score |-> min_score, filters |-> filters]]
    /\ UNCHANGED <<accepted, manager_vars, bm25_nodes, loop, call, ret, tasks, searchq, nfail,
                   rebuild_vars>>

\* retriever.retrieve(query) of search_memos
retrieve ==
    /\ search.op = "query"
    /\ search' = [op |-> "results", mode |-> search.mode, q |-> search.q,
                  text |-> search.text, image |-> search.image, bm25 |-> search.bm25,
                  out |-> Retrieve(search.mode, search.text, search.image,
                                   search.bm25, search.q)]
    /\ UNCHANGED <<accepted, manager_vars, bm25_nodes, loop, call, ret, tasks, searchq, nfail,
                   rebuild_vars>>

NextRetrieve ==
    \/ \E mode \in Strategies : get_retriever(mode)
    \/ retrieve

SpecRetrieve == Init /\ [][NextRetrieve]_vars

\* ------------------------------------------- memos with several images
\* an image for which neither a link nor a content is at hand
BareImage == [type |-> "image", content |-> FALSE]

\* memos of no image up to max_images + 1 images, and two with an attachment
\* that asks for no caption before an image
CaptionMemos ==
    {[name |-> <<"A">>, creator |-> "users/1", ver |-> 1, attachments |-> atts,
      valid |-> TRUE] :
        atts \in {[k \in 1..n |-> ImageAtt] : n \in 0..(max_images + 1)}
                  \cup {<<BareImage, ImageAtt>>, <<TextAtt, ImageAtt>>}}

\* background index tasks for such memos, with their caption coroutines
NextCaptions ==
    \/ \E memo \in CaptionMemos : index_memo(memo)
    \/ \E i \in 1..MaxTasks : StartIndexTask(i)
    \/ \E i \in 1..MaxTasks : generate_caption_async(TaskOwner(i))
    \/ \E i \in 1..MaxTasks : CaptionsDone(TaskOwner(i))
    \/ ManagerStep

SpecCaptions == Init /\ [][NextCaptions]_vars

function_vars ==
    <<manager_vars, bm25_nodes, loop, call, ret, tasks, searchq, nfail, rebuild_vars,
      accepted>>

\* ------------------------------------- the texts of the image documents
MaxAtts == 2

\* None, and the empty string: both are false in a condition
None == ""

\* caption_map: the captions that came back non-empty, keyed by the position
\* of their attachment; captions is what asyncio.gather returned
caption_map(memo, captions) ==
    LET image_indices == image_tasks(memo)
        kept == {k \in DOMAIN image_indices : captions[k] # None}
    IN  [idx \in {image_indices[k] : k \in kept} |->
            captions[CHOOSE k \in kept : image_indices[k] = idx]]

\* _caption_fn: the caption of the first attachment whose name is the
\* attachment_uid of the meta, else the filename of the meta
_caption_fn(memo, cmap, meta) ==
    LET atts == memo.attachments
        named == {i \in Indices(atts) : atts[i].name = meta.attachment_uid}
    IN  IF named = {} THEN meta.filename
        ELSE LET idx == CHOOSE i \in named : \A j \in named : i <= j
             IN  IF idx \in DOMAIN cmap THEN cmap[idx] ELSE meta.filename

\* the text of the image document built for the attachment at position i;
\* image_caption_fn is passed only when caption_map is not empty
ImageText(memo, cmap, i) ==
    LET att == memo.attachments[i]
        caption == IF att.filename # None THEN att.filename ELSE att.name
        custom_caption ==
            IF DOMAIN cmap = {} THEN None
            ELSE _caption_fn(memo, cmap,
                    [attachment_uid |-> att.name, filename |-> att.filename])
    IN  IF custom_caption # None THEN custom_caption ELSE caption

\* the image documents load_memo_with_async_captions returns: the position
\* of the attachment (from 1) and the text
load_memo_with_async_captions(memo, captions) ==
    LET image_docs == load_memo_to_llama_docs(memo).image_docs
        cmap == caption_map(memo, captions)
    IN  [k \in Indices(image_docs) |->
            LET i == image_docs[k].doc_id[Len(image_docs[k].doc_id)] + 1
            IN  [doc_id |-> image_docs[k].doc_id, at |-> i,
                 text |-> ImageText(memo, cmap, i)]]

AttNames == {"attachments/1", "attachments/2", None}

Filenames == {"a.png", "b.png"}

CaptionTexts == {None, "caption 1", "caption 2"}

NamedImages ==
    {[type |-> "image", content |-> TRUE, name |-> n, filename |-> f] :
        n \in AttNames, f \in Filenames}

MemoOf(atts) ==
    [name |-> <<"A">>, creator |-> "users/1", ver |-> 1, attachments |-> atts,
     valid |-> TRUE]

\* load_memo_with_async_captions for a memo of images, each caption coroutine
\* returning a caption or None
call_load_memo_with_async_captions ==
    /\ search = NoSearch
    /\ \E atts \in SeqsUpTo(NamedImages, MaxAtts) :
       \E captions \in [1..Len(image_tasks(MemoOf(atts))) -> CaptionTexts] :
            search' = [op |-> "load_memo_with_async_captions", memo |-> MemoOf(atts),
                       captions |-> captions,
                       out |-> load_memo_with_async_captions(MemoOf(atts), captions)]
    /\ UNCHANGED function_vars

\* load_memo_to_llama_docs for a memo of up to max_images + 1 attachments,
\* images with and without payload and text files
call_load_memo_to_llama_docs ==
    /\ search = NoSearch
    /\ \E atts \in SeqsUpTo({ImageAtt, BareImage, TextAtt}, max_images + 1) :
            search' = [op |-> "load_memo_to_llama_docs", memo |-> MemoOf(atts),
                       out |-> load_memo_to_llama_docs(MemoOf(atts))]
    /\ UNCHANGED function_vars

NextLoader ==
    \/ call_load_memo_with_async_captions
    \/ call_load_memo_to_llama_docs

SpecLoader == Init /\ [][NextLoader]_vars

\* ------------------------------------------- retrieval: the range of top_k
\* RetrievalQuery.top_k: Field(ge=1, le=100)
top_k_le == 100

FusionStrategies == {"rrf", "weighted", "bm25_vector", "bm25_vector_alpha", "adaptive"}

\* the top_k of the sub-queries a strategy builds: fetch_k = query.top_k * 3 in
\* the fusion strategies, query.top_k in vector and hybrid
fetch_k(mode, q) == IF mode \in FusionStrategies THEN q.top_k * 3 ELSE q.top_k

\* RetrievalQuery(...) validates its top_k and raises a ValidationError
RetrievalQueryRaises(top_k) == ~(top_k >= 1 /\ top_k <= top_k_le)

HitA == [memo_uid |-> <<"A">>, score |-> Rat(3, 4), metadata |-> MetadataOf(<<"A">>)]

HitB == [memo_uid |-> <<"B">>, score |-> Rat(1, 4), metadata |-> MetadataOf(<<"B">>)]

\* search_memos for every top_k a SearchRequest accepts, over stores that
\* answer with two hits
search_memos_top_k(mode) ==
    /\ search = NoSearch
    /\ \E top_k \in 1..top_k_le :
         LET q == [query |-> QueryBug, top_k |-> top_k, min_score |-> Zero,
                   filters |-> NoFilters]
             raised == \/ RetrievalQueryRaises(q.top_k)
                       \/ RetrievalQueryRaises(fetch_k(mode, q))
         IN  search' = [op |-> "search_memos", mode |-> mode, q |-> q,
                        raised |-> raised,
                        out |-> IF raised THEN <<>>
                                ELSE Retrieve(mode, <<HitA, HitB>>, <<HitA, HitB>>,
                                              <<HitA, HitB>>, q)]
    /\ UNCHANGED function_vars

NextTopK == \E mode \in Strategies : search_memos_top_k(mode)

SpecTopK == Init /\ [][NextTopK]_vars

\* --------------------------------------- retrieval: the functions alone
\* results as a retriever builds them from nodes; a node without memo_uid in
\* its metadata gives the empty memo_uid
Results ==
    {[memo_uid |-> uid, score |-> s, metadata |-> MetadataOf(uid)] :
        uid \in Names \cup {NoName}, s \in RawScores}

\* BM25 scores exceed 1 and cosine similarities go below 0
WideScores == {Rat(-1, 2), Rat(1, 4), Rat(3, 4), Rat(5, 2)}

WideResults ==
    {[memo_uid |-> <<"A">>, score |-> s, metadata |-> MetadataOf(<<"A">>)] :
        s \in WideScores}

FusedMemos == {<<"X">>, <<"Y">>, <<"Z">>, <<"W">>, NoName}

\* the lists the sub-retrievers hand to a fusion: a memo_uid at most once
Injective(list) == \A i, j \in DOMAIN list : list[i] = list[j] => i = j

ResultLists ==
    {[i \in DOMAIN list |->
        [memo_uid |-> list[i], score |-> Rat(3, 4), metadata |-> NoFilters]] :
        list \in {l \in SeqsUpTo(FusedMemos, MaxHits + 1) : Injective(l)}}

Weights == {One, Rat(1, 2)}

\* queries of one to nine words, plain or with a special or a quote character
Word == <<"a", "b">>

RECURSIVE Repeat(_)
Repeat(n) == IF n = 1 THEN Word ELSE Repeat(n - 1) \o <<" ">> \o Word

Decorations == {<<>>, <<"^">>, <<"'">>, <<"#", "\"">>}

QueryInputs ==
    QueryTexts \cup {Repeat(n) \o d : n \in {1, 2, 3, 8, 9}, d \in Decorations}

call_deduplicate_by_memo ==
    /\ search = NoSearch
    /\ \E results \in SeqsUpTo(Results, MaxHits + 1) :
            search' = [op |-> "deduplicate_by_memo", results |-> results,
                       out |-> deduplicate_by_memo(results)]
    /\ UNCHANGED function_vars

call_rrf_fusion ==
    /\ search = NoSearch
    /\ \E results1 \in ResultLists, results2 \in ResultLists,
          weight1 \in Weights, weight2 \in Weights :
            search' = [op |-> "_rrf_fusion", results1 |-> results1,
                       results2 |-> results2, weight1 |-> weight1,
                       weight2 |-> weight2, k |-> rrf_k,
                       out |-> _rrf_fusion(results1, weight1, results2, weight2, rrf_k)]
    /\ UNCHANGED function_vars

call_normalize_scores ==
    /\ search = NoSearch
    /\ \E results \in SeqsUpTo(WideResults, MaxHits + 1) :
            search' = [op |-> "_normalize_scores", results |-> results,
                       out |-> _normalize_scores(results)]
    /\ UNCHANGED function_vars

call_compute_alpha ==
    /\ search = NoSearch
    /\ \E query \in QueryInputs :
            search' = [op |-> "_compute_alpha", query |-> query,
                       out |-> _compute_alpha(query, base_alpha)]
    /\ UNCHANGED function_vars

NextFunctions ==
    \/ call_deduplicate_by_memo
    \/ call_rrf_fusion
    \/ call_normalize_scores
    \/ call_compute_alpha

SpecFunctions == Init /\ [][NextFunctions]_vars

\* ------------------------------------------------------------------ claims
Quiet == call = NoCall

ManifestTextIds(docs) ==
    <<docs.base_doc.doc_id>> \o
        [k \in Indices(docs.attachment_docs) |-> docs.attachment_docs[k].doc_id]

ManifestImageIds(docs) ==
    [k \in Indices(docs.image_docs) |-> docs.image_docs[k].doc_id]

ActiveTask(i) == tasks[i].pc \in {"captions", "calling"}

ActiveRebuild(j) == rtasks[j].pc \in {"fetching", "loop", "captions", "calling"}

\* C1: once delete_memo has returned for an indexed memo, no strategy can
\* return that memo any more (stated here for runs without store failures)
C1_DeletedNotRetrievable ==
    (ret.op = "delete" /\ ret.status = "ok" /\ nfail = 0)
        => \A mode \in Strategies : ret.uid \notin Retrievable(mode)

\* C2: no search is served from stores in which the memo being upserted is
\* half updated (old and new nodes together, or part of the new node set)
C2_SearchNeverHalfUpdated ==
    search.op = "search" => ~search.half

\* a search request is waiting while the running upsert has the memo half updated
C2_Witness == searchq /\ HalfUpdated

\* C3: two index tasks for the same memo never interleave: while one is
\* between its start and its end, no other task for that memo is
C3_NoInterleaving ==
    \A i, k \in 1..MaxTasks :
        (i # k /\ ActiveTask(i) /\ ActiveTask(k))
            => tasks[i].memo.name # tasks[k].memo.name

\* C4: at most one process_rebuild_index task per creator is running
C4_OneRebuildPerCreator ==
    \A j, k \in 1..MaxTasks :
        (j # k /\ ActiveRebuild(j) /\ ActiveRebuild(k))
            => rtasks[j].creator # rtasks[k].creator

\* C5: when add_or_update_memo has returned normally, the manifest entry of
\* the memo lists the base id then the attachment ids under text, the image
\* ids under image, and every listed id is in its store
C5_ManifestListsInserted ==
    (ret.op = "upsert" /\ ret.status = "ok")
        => /\ ret.uid \in DOMAIN memo_vector_map
           /\ memo_vector_map[ret.uid].text = ManifestTextIds(ret.docs)
           /\ memo_vector_map[ret.uid].image = ManifestImageIds(ret.docs)
           /\ \A id \in SeqSet(memo_vector_map[ret.uid].text) : HasDoc(text_index, id)
           /\ \A id \in SeqSet(memo_vector_map[ret.uid].image) : HasDoc(image_index, id)

\* an upsert with a text attachment and an image has returned normally, though
\* deleting one of the memo's old nodes had failed
C5_Witness ==
    /\ ret.op = "upsert" /\ ret.status = "ok" /\ ret.failed
    /\ ret.docs.attachment_docs # <<>>
    /\ ret.docs.image_docs # <<>>

\* C6: between operations, every node of the text or image store belongs to
\* a memo the manifest has an entry for, store failures included
C6_NoOrphanNodes ==
    Quiet => \A n \in Nodes(text_index) \cup Nodes(image_index) :
                n.memo_uid \in DOMAIN memo_vector_map

C8_Bm25SubsetOfTextStore ==
    bm25_nodes \subseteq Nodes(text_index)

\* C9: every memo of a rebuild whose indexing failed is counted in failed
C9_FailuresCounted ==
    \A j \in 1..MaxTasks :
        rtasks[j].pc \in {"loop", "captions", "calling"}
            => rebuild_tasks[rtasks[j].creator].failed >= rtasks[j].errors

EntryOf(docs) == [text |-> ManifestTextIds(docs), image |-> ManifestImageIds(docs)]

CompleteEntries(map) ==
    \A uid \in DOMAIN map :
        \E memo \in GoodMemos :
            memo.name = uid /\ map[uid] = EntryOf(load_memo_to_llama_docs(memo))

\* C11: when an insert has failed in add_or_update_memo the call has raised,
\* and the manifest, in memory and on disk, holds no entry for the memo; at
\* no moment does the manifest hold an entry that is not a complete id list
C11_InsertFailureNoPartialManifest ==
    /\ (ret.op = "upsert" /\ ret.status = "raised" /\ ret.uid # NoName)
          => (ret.uid \notin DOMAIN memo_vector_map /\ ret.uid \notin DOMAIN map_file)
    /\ CompleteEntries(memo_vector_map)
    /\ CompleteEntries(map_file)

\* the upsert of an indexed memo has raised after its old nodes were deleted
\* and part of its new nodes were inserted
C11_Witness ==
    /\ ret.op = "upsert" /\ ret.status = "raised"
    /\ ret.text_deleted > 0
    /\ MemoNodes(ret.uid) # {}

Deleting == call.op = "upsert" /\ call.pc \in {"delete_text", "delete_image"}

\* C12: a delete of an old node that fails during an upsert does not end the
\* upsert, and an upsert that returns after such a failure has inserted all
\* its new nodes and written exactly their ids to the manifest
C12_DeleteFailureNonFatal ==
    /\ [][(Deleting /\ nfail' > nfail) => (call'.op = "upsert" /\ call'.failed)]_vars
    /\ []((ret.op = "upsert" /\ ret.status = "ok" /\ ret.failed)
            => /\ ret.uid \in DOMAIN memo_vector_map
               /\ memo_vector_map[ret.uid] = EntryOf(ret.docs)
               /\ DocsOf(ret.docs) \subseteq MemoNodes(ret.uid))

\* an upsert has returned although the delete of an old node failed: the node
\* of the previous content is still in a store beside the new ones
C12_Witness ==
    /\ ret.op = "upsert" /\ ret.status = "ok" /\ ret.failed
    /\ \E n \in MemoNodes(ret.uid) : n.ver # ret.docs.base_doc.ver

\* C13: at every instant the manifest file holds a complete manifest
C13_ManifestFileComplete == map_file # Broken

\* C14: under every strategy, a query with filters brings back only results
\* whose metadata has every filter key with the filter's value; a node whose
\* metadata lacks a filter key is not returned
C14_FiltersExact ==
    search.op = "results" =>
        \A i \in DOMAIN search.out : \A key \in DOMAIN search.q.filters :
            /\ key \in DOMAIN search.out[i].metadata
            /\ search.out[i].metadata[key] = search.q.filters[key]

\* C15: under every strategy and for every query the returned list is in
\* non-increasing order of score and has at most top_k elements
C15_SortedAtMostTopK ==
    search.op = "results" =>
        /\ \A i \in 1..(Len(search.out) - 1) :
                ~Less(search.out[i].score, search.out[i + 1].score)
        /\ Len(search.out) <= search.q.top_k

\* a merge of two sources that had to be reordered and cut: the image store's
\* best node beats the text store's, and more memos matched than top_k
C15_Witness ==
    /\ search.op = "results"
    /\ search.mode = "vector"
    /\ search.q.top_k = 1
    /\ search.text # <<>> /\ search.image # <<>>
    /\ Less(search.text[1].score, search.image[1].score)
    /\ search.text[1].memo_uid # search.image[1].memo_uid
    /\ Len(search.out) = 1
    /\ search.out[1].memo_uid = search.image[1].memo_uid

UidsOf(results) == {results[i].memo_uid : i \in DOMAIN results}

\* C16: deduplicate_by_memo returns one result for each memo_uid of its input,
\* the one with the highest score among those of that memo_uid, and its output
\* is in descending order of score
C16_DedupKeepsBest ==
    search.op = "deduplicate_by_memo" =>
        /\ UidsOf(search.out) = UidsOf(search.results)
        /\ Len(search.out) = Cardinality(UidsOf(search.results))
        /\ \A i \in DOMAIN search.out :
            /\ \E j \in DOMAIN search.results : search.results[j] = search.out[i]
            /\ \A j \in DOMAIN search.results :
                search.results[j].memo_uid = search.out[i].memo_uid
                    => ~Less(search.out[i].score, search.results[j].score)
        /\ \A i \in 1..(Len(search.out) - 1) :
                ~Less(search.out[i].score, search.out[i + 1].score)

\* a memo whose better node comes after its worse one and after another memo
C16_Witness ==
    /\ search.op = "deduplicate_by_memo"
    /\ Len(search.results) = 3
    /\ search.results[1].memo_uid = search.results[3].memo_uid
    /\ search.results[2].memo_uid # search.results[1].memo_uid
    /\ Less(search.results[1].score, search.results[3].score)
    /\ Less(search.results[2].score, search.results[3].score)
    /\ search.out = <<search.results[3], search.results[2]>>

\* the 0-based positions of a memo_uid in a list
RanksOf(results, uid) == {i - 1 : i \in {j \in DOMAIN results : results[j].memo_uid = uid}}

\* weight / (k + rank + 1) when the list holds the memo_uid, else nothing
Reciprocal(results, weight, k, uid) ==
    IF RanksOf(results, uid) = {} THEN Zero
    ELSE LET rank == CHOOSE r \in RanksOf(results, uid) : TRUE
         IN  Div(weight, <<k + rank + 1, 1>>)

PlaceOf(results, uid) == CHOOSE i \in DOMAIN results : results[i].memo_uid = uid

ScoreOf(results, uid) == results[PlaceOf(results, uid)].score

ListOf(uids) ==
    [i \in DOMAIN uids |-> [memo_uid |-> uids[i], score |-> Rat(3, 4), metadata |-> NoFilters]]

\* C17: RRF fusion gives every memo_uid of its input lists, once, the sum over
\* the lists that hold it of weight / (k + rank + 1), rank counted from 0; for
\* A = [X, Y, Z], B = [Y, X, W], weights 1 and k = 60, X and Y get
\* 1/61 + 1/62, Z and W get 1/63, and X and Y come before Z and W
C17_RRFScores ==
    search.op = "_rrf_fusion" =>
        /\ UidsOf(search.out) =
                (UidsOf(search.results1) \cup UidsOf(search.results2)) \ {NoName}
        /\ Len(search.out) = Cardinality(UidsOf(search.out))
        /\ \A i \in DOMAIN search.out :
                search.out[i].score =
                    Add(Reciprocal(search.results1, search.weight1, search.k,
                                   search.out[i].memo_uid),
                        Reciprocal(search.results2, search.weight2, search.k,
                                   search.out[i].memo_uid))
        /\ ( /\ search.results1 = ListOf(<< <<"X">>, <<"Y">>, <<"Z">> >>)
             /\ search.results2 = ListOf(<< <<"Y">>, <<"X">>, <<"W">> >>)
             /\ search.weight1 = One /\ search.weight2 = One /\ search.k = 60 )
           => /\ ScoreOf(search.out, <<"X">>) = Add(Rat(1, 61), Rat(1, 62))
              /\ ScoreOf(search.out, <<"Y">>) = Add(Rat(1, 61), Rat(1, 62))
              /\ ScoreOf(search.out, <<"Z">>) = Rat(1, 63)
              /\ ScoreOf(search.out, <<"W">>) = Rat(1, 63)
              /\ \A hi \in {<<"X">>, <<"Y">>}, lo \in {<<"Z">>, <<"W">>} :
                    PlaceOf(search.out, hi) < PlaceOf(search.out, lo)

\* the fusion of A = [X, Y, Z] and B = [Y, X, W] has returned its four memos
C17_Witness ==
    /\ search.op = "_rrf_fusion"
    /\ search.results1 = ListOf(<< <<"X">>, <<"Y">>, <<"Z">> >>)
    /\ search.results2 = ListOf(<< <<"Y">>, <<"X">>, <<"W">> >>)
    /\ search.weight1 = One /\ search.weight2 = One /\ search.k = 60
    /\ Len(search.out) = 4

ScoresOf(results) == {results[i].score : i \in DOMAIN results}

\* C18: min-max normalization of a non-empty list puts every score between 0
\* and 1; when the largest score exceeds the smallest, the smallest becomes 0
\* and the largest 1; when all scores are equal, each becomes 1
C18_NormalizedRange ==
    (search.op = "_normalize_scores" /\ search.results # <<>>) =>
        /\ DOMAIN search.out = DOMAIN search.results
        /\ \A i \in DOMAIN search.out :
            /\ ~Less(search.out[i].score, Zero)
            /\ ~Less(One, search.out[i].score)
        /\ IF Cardinality(ScoresOf(search.results)) = 1
           THEN \A i \in DOMAIN search.out : search.out[i].score = One
           ELSE \A i \in DOMAIN search.results :
                /\ (\A j \in DOMAIN search.results :
                        ~Less(search.results[j].score, search.results[i].score))
                    => search.out[i].score = Zero
                /\ (\A j \in DOMAIN search.results :
                        ~Less(search.results[i].score, search.results[j].score))
                    => search.out[i].score = One

\* a list with a negative score, a score above 1 and one between them
C18_Witness ==
    /\ search.op = "_normalize_scores"
    /\ ScoresOf(search.results) = {Rat(-1, 2), Rat(1, 4), Rat(5, 2)}
    /\ ScoresOf(search.out) = {Zero, Rat(1, 4), One}

Plain(query) ==
    \A i \in DOMAIN query : query[i] \notin special_chars \cup Quotes

\* C19: with base alpha 0.5 the adaptive alpha is 0.3 for the query bug, 0.65
\* for a query of eight or more words with no special and no quote character,
\* and 0.2 for the query "exact phrase" with its two double quotes
C19_AdaptiveAlpha ==
    search.op = "_compute_alpha" =>
        /\ search.query = QueryBug => search.out = Rat(3, 10)
        /\ (Cardinality(Words(search.query)) >= 8 /\ Plain(search.query))
                => search.out = Rat(65, 100)
        /\ search.query = QueryQuoted => search.out = Rat(2, 10)

\* C20: while the index update of a background task's memo runs, the caption
\* provider has been invoked once for each image document of the memo and
\* for nothing else, so at most max_images times, and every invocation has
\* returned
C20_CaptionsMatchImageNodes ==
    \A i \in 1..MaxTasks :
        (tasks[i].pc = "calling" /\ loop = TaskOwner(i) /\ call.op = "upsert") =>
            /\ tasks[i].invoked = Len(call.docs.image_docs)
            /\ tasks[i].invoked <= max_images
            /\ tasks[i].done = tasks[i].invoked

\* C21: when the caption of an image failed or came back empty, the memo is
\* still loaded, the image document is there and its text is the filename of
\* the attachment
C21_CaptionFallsBackToFilename ==
    search.op = "load_memo_with_async_captions" =>
        \A k \in DOMAIN search.captions :
            search.captions[k] = None =>
                \E d \in DOMAIN search.out :
                    /\ search.out[d].at = image_tasks(search.memo)[k]
                    /\ search.out[d].text = search.memo.attachments[search.out[d].at].filename

\* the positions (from 1) of the attachments the image documents of a
\* load_memo_to_llama_docs result were built from, in the order of the list
ImagePositions(out) ==
    [k \in Indices(out.image_docs) |->
        out.image_docs[k].doc_id[Len(out.image_docs[k].doc_id)] + 1]

Resolvable(att) == _is_image(att) /\ _build_data_url(att)

\* C24 as stated: at most max_images image documents, built from the first
\* max_images image attachments of the memo, in attachment order
C24_FirstImageAttachments ==
    search.op = "load_memo_to_llama_docs" =>
        LET atts == search.memo.attachments
            at == ImagePositions(search.out)
            images == {i \in Indices(atts) : _is_image(atts[i])}
        IN  /\ Len(at) <= max_images
            /\ \A k \in DOMAIN at : \A l \in DOMAIN at : k < l => at[k] < at[l]
            /\ \A k \in DOMAIN at :
                    /\ at[k] \in images
                    /\ \A j \in images : j < at[k] => \E l \in DOMAIN at : at[l] = j
            /\ Len(at) < max_images => \A j \in images : \E l \in DOMAIN at : at[l] = j

\* C24, amended: at most max_images image documents, built from the first
\* max_images image attachments whose payload resolves, in attachment order
C24_FirstResolvableImages ==
    search.op = "load_memo_to_llama_docs" =>
        LET atts == search.memo.attachments
            at == ImagePositions(search.out)
            images == {i \in Indices(atts) : Resolvable(atts[i])}
        IN  /\ Len(at) <= max_images
            /\ \A k \in DOMAIN at : \A l \in DOMAIN at : k < l => at[k] < at[l]
            /\ \A k \in DOMAIN at :
                    /\ at[k] \in images
                    /\ \A j \in images : j < at[k] => \E l \in DOMAIN at : at[l] = j
            /\ Len(at) < max_images => \A j \in images : \E l \in DOMAIN at : at[l] = j

\* a memo with more resolvable images than max_images, after an image without
\* payload, has been loaded
C24_Witness ==
    /\ search.op = "load_memo_to_llama_docs"
    /\ Len(search.out.image_docs) = max_images
    /\ ~ Resolvable(search.memo.attachments[1])
    /\ _is_image(search.memo.attachments[1])
    /\ Cardinality({i \in Indices(search.memo.attachments) :
                        Resolvable(search.memo.attachments[i])}) = max_images

\* a memo dict that fails Memo validation or carries no name
Malformed(memo) == ~memo.valid \/ memo.name = NoName

\* C22: a malformed memo submitted for indexing is rejected to the caller:
\* no request that carries one has been answered "accepted"
C22_MalformedRejected ==
    \A i \in 1..MaxTasks :
        (tasks[i] # Idle /\ Malformed(tasks[i].memo)) => tasks[i].status # "accepted"

\* the steps of a background task that holds a malformed memo leave the
\* manifest, its file and both stores as they were
MalformedLeavesState ==
    [][\A i \in 1..MaxTasks :
            (/\ tasks'[i] # tasks[i]
             /\ \/ tasks[i] # Idle /\ Malformed(tasks[i].memo)
                \/ tasks'[i] # Idle /\ Malformed(tasks'[i].memo))
            => UNCHANGED manager_vars]_vars

\* C23: for a query without filters and with min_score >= 0, over the same
\* answers of the stores, the hybrid strategy returns the result list the
\* vector strategy returns, and the vector strategy the one of hybrid
C23_HybridIsVector ==
    (/\ search.op = "results"
     /\ search.q.filters = NoFilters
     /\ ~Less(search.q.min_score, Zero)) =>
        /\ search.mode = "hybrid" =>
                search.out = VectorRetriever(search.text, search.image, search.q)
        /\ search.mode = "vector" =>
                search.out = HybridRetriever(search.text, search.image, search.q)

\* a hybrid query without filters whose min_score cuts a hit of a store off,
\* over a text and an image store that both answer, has returned results
C23_Witness ==
    /\ search.op = "results"
    /\ search.mode = "hybrid"
    /\ search.q.filters = NoFilters
    /\ Less(Zero, search.q.min_score)
    /\ search.text # <<>> /\ search.image # <<>>
    /\ \E i \in DOMAIN search.text : Less(search.text[i].score, search.q.min_score)
    /\ search.out # <<>>

\* C25: for every top_k in 1..100 each fusion strategy completes its
\* sub-queries of 3 * top_k and returns a result list, it raises no error
C25_FusionReturnsForEveryTopK ==
    (/\ search.op = "search_memos"
     /\ search.mode \in FusionStrategies
     /\ search.q.top_k \in 1..top_k_le) => ~search.raised

\* C26: when add_or_update_memo raises for a memo that was indexed before the
\* call, the manifest entry and the store nodes of that memo are the ones
\* from before the call
C26_RaisedUpsertKeepsOldVersion ==
    [][(/\ call.op = "upsert"
        /\ call.mapping # NoMapping
        /\ ret'.op = "upsert"
        /\ ret'.status = "raised")
       => /\ call.uid \in DOMAIN memo_vector_map'
          /\ memo_vector_map'[call.uid] = call.mapping
          /\ {n \in Nodes(text_index') \cup Nodes(image_index') :
                    n.memo_uid = call.uid} = call.old]_vars

\* the memo dict of a well-formed request, by memo_uid and version
MemoOfVersion(uid, ver) == CHOOSE memo \in GoodMemos : memo.name = uid /\ memo.ver = ver

\* C27: once the background tasks of the index requests for a memo_uid have
\* all finished, no store operation having failed, the manifest and the
\* stores hold the nodes of the request accepted last
C27_LaterRequestWins ==
    \A uid \in Names :
        (/\ accepted[uid] # 0
         /\ nfail = 0
         /\ \A i \in 1..MaxTasks : tasks[i] # Idle => tasks[i].memo.name # uid)
        => /\ uid \in DOMAIN memo_vector_map
           /\ memo_vector_map[uid] =
                EntryOf(load_memo_to_llama_docs(MemoOfVersion(uid, accepted[uid])))
           /\ MemoNodes(uid) =
                DocsOf(load_memo_to_llama_docs(MemoOfVersion(uid, accepted[uid])))

\* C28: the steps of add_or_update_memo and delete_memo for one memo leave
\* the manifest entry and the store nodes of every other memo as they were
C28_OtherMemosUntouched ==
    [][call.op # "none" =>
        \A B \in (Names \cup {AttLikeName}) \ {call.uid} :
            /\ (B \in DOMAIN memo_vector_map') = (B \in DOMAIN memo_vector_map)
            /\ B \in DOMAIN memo_vector_map => memo_vector_map'[B] = memo_vector_map[B]
            /\ {n \in Nodes(text_index') : n.memo_uid = B}
                    = {n \in Nodes(text_index) : n.memo_uid = B}
            /\ {n \in Nodes(image_index') : n.memo_uid = B}
                    = {n \in Nodes(image_index) : n.memo_uid = B}]_vars

Started(j) == rtasks[j].pc \notin {"idle", "queued"}

\* C29: every started rebuild task ends, and the status of its creator is
\* then "completed" or "failed"; a status "running" does not stay forever
C29_RebuildEnds ==
    /\ \A j \in 1..MaxTasks :
            Started(j) ~> (~Started(j) /\ \A c \in Creators :
                                rebuild_tasks[c].status \in {"completed", "failed"})
    /\ \A c \in Creators :
            rebuild_tasks[c].status = "running" ~> rebuild_tasks[c].status # "running"

\* a rebuild that fetched a memo and replaced its indexed version has ended
\* with the status "completed"
C29_Witness ==
    /\ \A j \in 1..MaxTasks : rtasks[j] = Idle
    /\ ret.op = "upsert" /\ ret.status = "ok" /\ ret.text_deleted > 0
    /\ \E c \in Creators :
         /\ rebuild_tasks[c].status = "completed"
         /\ rebuild_tasks[c].total = 1
         /\ rebuild_tasks[c].completed = 1

\* C30: the get operation, by IndexManager.get_memo_info and by the endpoint
\* get_memo_index_info alike, returns for an indexed memo the ids of its
\* manifest entry with text_count and image_count their numbers, and reports
\* not-indexed (None, 404) for a memo the manifest does not hold
C30_GetReportsManifestEntry ==
    search.op \in {"get_memo_info", "get_memo_index_info"} =>
        IF search.uid \in DOMAIN memo_vector_map
        THEN /\ search.status = "returned"
             /\ search.info.indexed
             /\ search.info.text_vector_ids = memo_vector_map[search.uid].text
             /\ search.info.image_vector_ids = memo_vector_map[search.uid].image
             /\ search.info.text_count = Len(search.info.text_vector_ids)
             /\ search.info.image_count = Len(search.info.image_vector_ids)
        ELSE /\ search.status = IF search.op = "get_memo_info" THEN "returned" ELSE "404"
             /\ ~search.info.indexed

\* the method alone does what the claim says
GetMemoInfoReportsEntry ==
    search.op = "get_memo_info" => C30_GetReportsManifestEntry

====
